---------------------------- MODULE Spec2Model ----------------------------
(***************************************************************************)
(* Model of the avalanche-sentinel queue workers                           *)
(* (backend/workers/*/src/main.rs): the Redis job loop listen_for_jobs /   *)
(* publish_result, and the three heuristic analyses                        *)
(* analyze_consensus_safety_v3, analyze_portability_v3 and                 *)
(* analyze_staking_precompiles_v2.                                         *)
(*                                                                         *)
(* Source text is a sequence of chunks.  A chunk is a maximal run of word  *)
(* characters written as one string ("function", "bytes32"), or a single   *)
(* non-word character ("(", ".", " ", "\n").  Two adjacent word chunks     *)
(* stand for one longer word ("set","Owner" is setOwner), so \b is decided *)
(* on chunk edges exactly as the regex crate decides it on characters.     *)
(***************************************************************************)
EXTENDS Integers, Sequences, FiniteSets, TLC

(***************************************************************************)
(* Bounds of the model.                                                    *)
(***************************************************************************)
\* pieces of source text concatenated into one source the consensus worker evaluates
MaxConsensusPieces == 3
\* pieces of source text concatenated into one source the portability worker evaluates
MaxPortabilityPieces == 2
\* pieces of source text concatenated into one source the staking worker evaluates
MaxStakingPieces == 3
\* findings in a collection handed to the deduplication step on its own
MaxIssues == 3
\* payloads the producers push in one run of the job loop
MaxJobs == 3
\* transport errors (failed BLPOP / RPUSH) injected in one run
MaxTransportErrors == 2

(***************************************************************************)
(* Characters                                                              *)
(***************************************************************************)
NL == "\n"

\* \s of the regex crate (the whitespace the modelled sources use)
IsSpace(c) == c \in {" ", NL}

\* the single non-word characters of the modelled sources
Punct == {"(", ")", "{", "}", ".", ",", ":", ";", "=", ">", "<", "+"}

\* \w of the regex crate: every chunk that is not whitespace or punctuation
IsWord(c) == ~IsSpace(c) /\ c \notin Punct

\* str::to_lowercase / (?i) on the chunks that have upper-case letters
Lower(c) ==
  CASE c = "getReserves" -> "getreserves"
    [] c = "GETRESERVES" -> "getreserves"
    [] c = "balanceOf" -> "balanceof"
    [] c = "0x9Ad6C38BE94206cA50bb0d90783181662f0Cfa10" -> "0x9ad6c38be94206ca50bb0d90783181662f0cfa10"
    [] c = "0x60aE616a2155Ee3d9A68541Ba4544862310933d4" -> "0x60ae616a2155ee3d9a68541ba4544862310933d4"
    [] c = "0xE54Ca86531e17Ef3616d22Ca28b0D458b6C89106" -> "0xe54ca86531e17ef3616d22ca28b0d458b6c89106"
    [] c = "0xd00ae08403B959254dbA1188b832b412A4461b95" -> "0xd00ae08403b959254dba1188b832b412a4461b95"
    [] c = "0x2b2C81e08f1Af8835a78Bb2A90AE924ACE0eA4be" -> "0x2b2c81e08f1af8835a78bb2a90ae924ace0ea4be"
    [] c = "0X0100000000000000000000000000000000000000" -> "0x0100000000000000000000000000000000000000"
    [] OTHER -> c

(***************************************************************************)
(* Line Indexer: str::lines().  Splits at every "\n"; a final line that is *)
(* empty (the text ends in "\n", or is empty) is not a line.               *)
(***************************************************************************)
RECURSIVE SplitNL(_, _, _)
SplitNL(s, i, cur) ==
  IF i > Len(s) THEN (IF cur = <<>> THEN <<>> ELSE <<cur>>)
  ELSE IF s[i] = NL THEN <<cur>> \o SplitNL(s, i + 1, <<>>)
  ELSE SplitNL(s, i + 1, Append(cur, s[i]))

Lines(code) == SplitNL(code, 1, <<>>)

\* LineNum counting from the wrong base
LineNumOffByOne(i) == i + 1

\* (i + 1) as u32 of a 0-based enumerate() index; i here is the 1-based index
LineNum(i) == i

(***************************************************************************)
(* The regex crate on chunk sequences.  A pattern is [ci, e]: e is the     *)
(* sequence of its elements, ci is the (?i) flag.  Elements:               *)
(*   [k |-> "lit", c]   one literal chunk                                  *)
(*   [k |-> "alt", a]   (x|y|..): a is the sequence of alternatives, each  *)
(*                      a sequence of elements, tried in order             *)
(*   [k |-> "b"]        \b                                                 *)
(*   [k |-> "s*"] [k |-> "s+"]   greedy \s* and \s+                         *)
(*   [k |-> ".*"] [k |-> ".*?"]  greedy and lazy any-but-newline            *)
(*   [k |-> "w+"]       [a-zA-Z0-9_]+                                      *)
(*   [k |-> "opt", p]   (?:p)? greedy                                      *)
(* First(..) is the end position (index after the last chunk matched) of   *)
(* the match a backtracking matcher finds first from position pos, which   *)
(* is the leftmost-first match of the regex crate; 0 is no match.          *)
(***************************************************************************)
Lit(c) == [k |-> "lit", c |-> c]
\* alternatives given as element sequences
AltP(a) == [k |-> "alt", a |-> a]
WB == [k |-> "b"]
SStar == [k |-> "s*"]
SPlus == [k |-> "s+"]
AnyStar == [k |-> ".*"]
AnyLazy == [k |-> ".*?"]
WordPlus == [k |-> "w+"]
Opt(p) == [k |-> "opt", p |-> p]

\* a sequence of literal chunks as pattern elements
RECURSIVE Lits(_)
Lits(cs) == IF cs = <<>> THEN <<>> ELSE <<Lit(Head(cs))>> \o Lits(Tail(cs))

\* alternatives given as sequences of literal chunks
Alt(a) == AltP([j \in DOMAIN a |-> Lits(a[j])])

ChunkEq(ci, a, b) == IF ci THEN Lower(a) = Lower(b) ELSE a = b

\* \b at pos: exactly one of the characters before and after pos is a word character
IsBoundary(s, pos) ==
  LET before == pos > 1 /\ pos - 1 <= Len(s) /\ IsWord(s[pos - 1])
      after == pos >= 1 /\ pos <= Len(s) /\ IsWord(s[pos])
  IN before # after

\* number of consecutive chunks from pos that satisfy the class
RECURSIVE Run(_, _, _)
Run(s, pos, class) ==
  IF pos > Len(s) THEN 0
  ELSE IF (class = "s" /\ IsSpace(s[pos]))
          \/ (class = "." /\ s[pos] # NL)
          \/ (class = "w" /\ IsWord(s[pos]))
       THEN 1 + Run(s, pos + 1, class)
       ELSE 0

RECURSIVE First(_, _, _, _, _)
RECURSIVE FirstGreedy(_, _, _, _, _, _, _)
RECURSIVE FirstLazy(_, _, _, _, _, _, _)
RECURSIVE FirstAlt(_, _, _, _, _, _)

\* repetition taking n chunks, trying n, n-1, .. , lo
FirstGreedy(ci, e, i, s, pos, n, lo) ==
  IF n < lo THEN 0
  ELSE LET r == First(ci, e, i + 1, s, pos + n)
       IN IF r # 0 THEN r ELSE FirstGreedy(ci, e, i, s, pos, n - 1, lo)

\* repetition taking n chunks, trying n, n+1, .. , hi
FirstLazy(ci, e, i, s, pos, n, hi) ==
  IF n > hi THEN 0
  ELSE LET r == First(ci, e, i + 1, s, pos + n)
       IN IF r # 0 THEN r ELSE FirstLazy(ci, e, i, s, pos, n + 1, hi)

\* alternatives j.. of element i, in order
FirstAlt(ci, e, i, s, pos, j) ==
  IF j > Len(e[i].a) THEN 0
  ELSE LET r == First(ci, e[i].a[j] \o SubSeq(e, i + 1, Len(e)), 1, s, pos)
       IN IF r # 0 THEN r ELSE FirstAlt(ci, e, i, s, pos, j + 1)

First(ci, e, i, s, pos) ==
  IF i > Len(e) THEN pos
  ELSE LET x == e[i] IN
    CASE x.k = "lit" ->
           IF pos <= Len(s) /\ ChunkEq(ci, s[pos], x.c)
           THEN First(ci, e, i + 1, s, pos + 1) ELSE 0
      [] x.k = "alt" -> FirstAlt(ci, e, i, s, pos, 1)
      [] x.k = "b" -> IF IsBoundary(s, pos) THEN First(ci, e, i + 1, s, pos) ELSE 0
      [] x.k = "s*" -> FirstGreedy(ci, e, i, s, pos, Run(s, pos, "s"), 0)
      [] x.k = "s+" -> FirstGreedy(ci, e, i, s, pos, Run(s, pos, "s"), 1)
      [] x.k = ".*" -> FirstGreedy(ci, e, i, s, pos, Run(s, pos, "."), 0)
      [] x.k = ".*?" -> FirstLazy(ci, e, i, s, pos, 0, Run(s, pos, "."))
      [] x.k = "w+" -> FirstGreedy(ci, e, i, s, pos, Run(s, pos, "w"), 1)
      [] x.k = "opt" ->
           LET r == First(ci, x.p \o SubSeq(e, i + 1, Len(e)), 1, s, pos)
           IN IF r # 0 THEN r ELSE First(ci, e, i + 1, s, pos)

\* Regex::is_match
IsMatch(re, s) == \E pos \in 1..(Len(s) + 1) : First(re.ci, re.e, 1, s, pos) # 0

\* Regex::captures(..).get(0).as_str(): the text of the leftmost-first match; <<>> when none
MatchText(re, s) ==
  IF ~IsMatch(re, s) THEN <<>>
  ELSE LET start == CHOOSE p \in 1..(Len(s) + 1) :
                      /\ First(re.ci, re.e, 1, s, p) # 0
                      /\ \A q \in 1..(p - 1) : First(re.ci, re.e, 1, s, q) = 0
       IN SubSeq(s, start, First(re.ci, re.e, 1, s, start) - 1)

\* str::contains of a text that is one chunk
Contains(s, c) == \E i \in 1..Len(s) : s[i] = c

\* line.to_lowercase().contains(&addr.to_lowercase()) for an address chunk
ContainsLower(s, c) == \E i \in 1..Len(s) : Lower(s[i]) = Lower(c)

\* index of the first line (1-based) that matches re, 0 when none: the
\* "for (i, line) in code.lines().enumerate() { if re.is_match(line) {..; break} }" loops
RECURSIVE FirstLineFrom(_, _, _)
FirstLineFrom(re, ls, i) ==
  IF i > Len(ls) THEN 0
  ELSE IF IsMatch(re, ls[i]) THEN LineNum(i)
  ELSE FirstLineFrom(re, ls, i + 1)

FirstMatchingLine(re, ls) == FirstLineFrom(re, ls, 1)


(***************************************************************************)
(* Findings and their deduplication                                        *)
(***************************************************************************)
\* struct ConsensusIssue / PortabilityIssue / PrecompileIssue.  A description is the
\* sequence of its fixed text and the values format!() puts into it; the backquotes
\* of the source's texts are written as single quotes.
Issue(line, issue_type, description, recommendation) ==
  [line |-> line, issue_type |-> issue_type,
   description |-> description, recommendation |-> recommendation]

\* issues.into_iter().collect::<HashSet<_>>(): equality and hash over all four fields
HashSetOf(issues) == {issues[i] : i \in DOMAIN issues}

\* HashSet::into_iter().collect::<Vec<_>>(): every element once, in the order the
\* randomly keyed hasher happens to give, which is any order
RECURSIVE IntoVec(_)
IntoVec(set) ==
  IF set = {} THEN {<<>>}
  ELSE UNION {{<<x>> \o rest : rest \in IntoVec(set \ {x})} : x \in set}

\* a deduplication that drops only the first repeated finding it meets
RECURSIVE DropFirstRepeat(_, _)
DropFirstRepeat(issues, i) ==
  IF i > Len(issues) THEN issues
  ELSE IF \E j \in 1..(i - 1) : issues[j] = issues[i]
       THEN SubSeq(issues, 1, i - 1) \o SubSeq(issues, i + 1, Len(issues))
       ELSE DropFirstRepeat(issues, i + 1)

DedupOneRepeat(issues) == {DropFirstRepeat(issues, 1)}

\* "let unique_issues: HashSet<_> = issues.into_iter().collect();
\*  let output: Vec<_> = unique_issues.into_iter().collect();": the possible outputs
Dedup(issues) == IntoVec(HashSetOf(issues))

\* issues.push(x) when cond holds
PushIf(cond, x) == IF cond THEN <<x>> ELSE <<>>

\* Option<T>: <<>> is None, <<v>> is Some(v)
None == <<>>
Some(v) == <<v>>
IsSome(o) == o # <<>>

(***************************************************************************)
(* consensus_compliance_worker: analyze_consensus_safety_v3                *)
(***************************************************************************)
Re(e) == [ci |-> FALSE, e |-> e]
ReCI(e) == [ci |-> TRUE, e |-> e]

\* r"function\s+(commit|register|submit)\s*\(\s*bytes32"
commit_regex ==
  Re(<<Lit("function"), SPlus, Alt(<<<<"commit">>, <<"register">>, <<"submit">>>>),
       SStar, Lit("("), SStar, Lit("bytes32")>>)

\* r"function\s+(reveal|claim|solve)\s*\("
reveal_regex ==
  Re(<<Lit("function"), SPlus, Alt(<<<<"reveal">>, <<"claim">>, <<"solve">>>>),
       SStar, Lit("(")>>)

\* r"\bblock\.number\b"
block_number_regex == Re(<<WB, Lit("block"), Lit("."), Lit("number"), WB>>)

\* r"(?i)\.(getReserves|token0|token1|balanceOf)\s*\(\s*\)"
spot_price_regex ==
  ReCI(<<Lit("."),
         Alt(<<<<"getReserves">>, <<"token0">>, <<"token1">>, <<"balanceOf">>>>),
         SStar, Lit("("), SStar, Lit(")")>>)

\* r"contract\s+[a-zA-Z0-9_]+\s+(?:is|implements)\s+(?:AggregatorV3Interface|Chainlink|PriceOracle)"
is_price_feed_contract_regex ==
  Re(<<Lit("contract"), SPlus, WordPlus, SPlus, Alt(<<<<"is">>, <<"implements">>>>), SPlus,
       Alt(<<<<"AggregatorV3Interface">>, <<"Chainlink">>, <<"PriceOracle">>>>)>>)

\* r"function\s+(set|change)(Admin|Owner|Pauser|Operator)\s*\("
critical_setter_regex ==
  Re(<<Lit("function"), SPlus, Alt(<<<<"set">>, <<"change">>>>),
       Alt(<<<<"Admin">>, <<"Owner">>, <<"Pauser">>, <<"Operator">>>>), SStar, Lit("(")>>)

\* r"\b(admin|owner|pauser|operator)\b"
critical_variable_regex ==
  Re(<<WB, Alt(<<<<"admin">>, <<"owner">>, <<"pauser">>, <<"operator">>>>), WB>>)

\* r"\b(block\.timestamp|block\.number)\b.*\b(>=|>)\b"
time_lock_regex ==
  Re(<<WB, Alt(<<<<"block", ".", "timestamp">>, <<"block", ".", "number">>>>), WB,
       AnyStar, WB, Alt(<<<<">", "=">>, <<">">>>>), WB>>)

\* r"\b(blockhash|block\.timestamp|block\.difficulty|block\.coinbase|block\.number)\b"
unsafe_randomness_regex ==
  Re(<<WB, Alt(<<<<"blockhash">>, <<"block", ".", "timestamp">>, <<"block", ".", "difficulty">>,
                 <<"block", ".", "coinbase">>, <<"block", ".", "number">>>>), WB>>)

\* r"\bkeccak256\b"
keccak_regex == Re(<<WB, Lit("keccak256"), WB>>)

ReorgType == "Reorg Safety Hazard (Implicit Finality Assumption)"
MultiTxType == "Multi-Transaction Dependency Hazard"
SpotPriceType == "Spot Price Oracle Hazard"
RandomnessType == "Unsafe On-Chain Randomness"

ReorgIssue(line) ==
  Issue(line, ReorgType,
        <<"A commit-reveal scheme was detected, but it does not appear to use 'block.number' to enforce a delay between the commit and reveal phases.">>,
        "While safe on Avalanche due to fast finality, this pattern is vulnerable to reorgs on other chains. To ensure universal compatibility, use 'block.number' to enforce a delay.")

MultiTxIssue(line) ==
  Issue(line, MultiTxType,
        <<"A critical state variable (e.g., owner, admin) can be set and immediately used without a time-lock. This is vulnerable to front-running and reorgs on slower-finality chains.">>,
        "Implement a time-lock or a two-step process for critical state changes. E.g., 'proposeNewAdmin(address)' in one tx, 'acceptAdmin()' in a later tx after a time delay ('block.timestamp + DELAY').")

SpotPriceIssue(line) ==
  Issue(line, SpotPriceType,
        <<"Direct read of spot price from a DEX (e.g., 'getReserves()') detected. This is vulnerable to flash loan manipulation on slower-finality chains.">>,
        "Always use a Time-Weighted Average Price (TWAP) oracle or a decentralized oracle network (like Chainlink) for robust price feeds, especially when interacting with chains susceptible to reorgs.")

RandomnessIssue(line) ==
  Issue(line, RandomnessType,
        <<"The contract appears to be generating a random number using a predictable or manipulatable on-chain value (e.g., block.timestamp, blockhash).">>,
        "Never use on-chain data for randomness in applications where value is at stake. This is a critical vulnerability. Use a secure off-chain solution like Chainlink VRF (Verifiable Random Function) to get provably fair random numbers.")

\* ReorgCheck without the test of is_reorg_safe
ReorgCheckNoSafeTest(code) ==
  PushIf(IsMatch(commit_regex, code) /\ IsMatch(reveal_regex, code),
         ReorgIssue(FirstMatchingLine(reveal_regex, Lines(code))))

\* V1 check: unsafe commit-reveal (whole file)
ReorgCheck(code) ==
  LET has_commit_function == IsMatch(commit_regex, code)
      has_reveal_function == IsMatch(reveal_regex, code)
      is_reorg_safe == IsMatch(block_number_regex, code)
  IN PushIf(has_commit_function /\ has_reveal_function /\ ~is_reorg_safe,
            ReorgIssue(FirstMatchingLine(reveal_regex, Lines(code))))

\* has_time_lock: the time-lock test of the V2 whole-file check
HasTimeLock(code) == IsMatch(time_lock_regex, code)

\* V2 check: multi-transaction state dependency without time-lock (whole file)
MultiTxCheck(code) ==
  LET has_critical_setter == IsMatch(critical_setter_regex, code)
      has_critical_variable_usage == IsMatch(critical_variable_regex, code)
      has_time_lock == HasTimeLock(code)
  IN PushIf(has_critical_setter /\ has_critical_variable_usage /\ ~has_time_lock,
            MultiTxIssue(FirstMatchingLine(critical_setter_regex, Lines(code))))

\* the exemption tested against the line instead of the whole code
SpotPriceExemptPerLine(code, line_content) ==
  IsMatch(is_price_feed_contract_regex, line_content)

\* the price-feed exemption of the spot-price check, tested against the whole code
SpotPriceExempt(code, line_content) == IsMatch(is_price_feed_contract_regex, code)

\* body of the line-by-line loop for line i (1-based)
ConsensusLineIssues(code, ls, i) ==
  LET line_content == ls[i]
      line_num == LineNum(i)
  IN PushIf(IsMatch(spot_price_regex, line_content) /\ ~SpotPriceExempt(code, line_content),
            SpotPriceIssue(line_num))
     \o PushIf(IsMatch(keccak_regex, line_content)
                 /\ IsMatch(unsafe_randomness_regex, line_content),
               RandomnessIssue(line_num))

RECURSIVE ConsensusLoop(_, _, _)
ConsensusLoop(code, ls, i) ==
  IF i > Len(ls) THEN <<>>
  ELSE ConsensusLineIssues(code, ls, i) \o ConsensusLoop(code, ls, i + 1)

\* the issues vector at the end of the scan, before deduplication
ConsensusIssues(job) ==
  LET code == job.source_code
  IN ReorgCheck(code) \o MultiTxCheck(code) \o ConsensusLoop(code, Lines(code), 1)

\* the AnalysisResults the call can return (one per iteration order of the HashSet)
analyze_consensus_safety_v3(job) ==
  {[job_id |-> job.job_id, worker_name |-> "ConsensusComplianceWorkerV3", output |-> o] :
     o \in Dedup(ConsensusIssues(job))}


(***************************************************************************)
(* subnet_portability_worker: analyze_portability_v3                       *)
(***************************************************************************)
\* const CCHAIN_ONLY_ADDRESSES
CCHAIN_ONLY_ADDRESSES ==
  << <<"0x9Ad6C38BE94206cA50bb0d90783181662f0Cfa10", "Trader Joe V1 Router">>,
     <<"0x60aE616a2155Ee3d9A68541Ba4544862310933d4", "Trader Joe V2 Router">>,
     <<"0xE54Ca86531e17Ef3616d22Ca28b0D458b6C89106", "Pangolin Router">>,
     <<"0xd00ae08403B959254dbA1188b832b412A4461b95", "Benqi Lending Market (qiAVAX)">>,
     <<"0x2b2C81e08f1Af8835a78Bb2A90AE924ACE0eA4be", "Aave V2 Lending Pool">> >>

\* const COMMON_PRECOMPILES
COMMON_PRECOMPILES ==
  << <<"0x0100000000000000000000000000000000000000", "P-Chain Handler">>,
     <<"0x0200000000000000000000000000000000000000", "Contract Deployer Allow List">>,
     <<"0x0200000000000000000000000000000000000001", "Contract Native Minter">>,
     <<"0x0200000000000000000000000000000000000002", "Fee Manager">> >>

\* r"\bchainid\b"
chainid_regex == Re(<<WB, Lit("chainid"), WB>>)
\* r"\bmsg\.value\b"
msg_value_regex == Re(<<WB, Lit("msg"), Lit("."), Lit("value"), WB>>)
\* r"\.balance\b"
balance_regex == Re(<<Lit("."), Lit("balance"), WB>>)
\* r"\.call\s*\{\s*gas:"
hardcoded_gas_regex == Re(<<Lit("."), Lit("call"), SStar, Lit("{"), SStar, Lit("gas"), Lit(":")>>)

\* let simulated_function_cost = 1_000_000;
simulated_function_cost == 1000000

\* struct Genesis { config: ChainConfig { fee_config: FeeConfig { gas_limit },
\*                                        precompile_validator_allow_list } }
\* The allow list is the set of the keys of the JSON map.
Genesis(gas_limit, allow_list) ==
  [config |-> [fee_config |-> [gas_limit |-> gas_limit],
               precompile_validator_allow_list |-> allow_list]]

\* job.subnet_genesis.as_ref().and_then(|g| g.config.fee_config.gas_limit)
subnet_gas_limit(job) ==
  IF IsSome(job.subnet_genesis) THEN job.subnet_genesis[1].config.fee_config.gas_limit ELSE None

\* job.subnet_genesis ... precompile_validator_allow_list ... p.keys().cloned().collect()
enabled_precompiles(job) ==
  IF IsSome(job.subnet_genesis)
  THEN job.subnet_genesis[1].config.precompile_validator_allow_list
  ELSE None

ChainIdIssue(line) ==
  Issue(line, "Hardcoded Chain Assumption", <<"The 'chainid' opcode was used.">>,
        "Avoid using 'chainid' for core logic. On a new Subnet, this value will be different and may break your contract.")

MsgValueIssue(line) ==
  Issue(line, "Native Token Assumption",
        <<"The 'msg.value' keyword was used, assuming a native, value-bearing token.">>,
        "Be aware that many Subnets may use a valueless native token for gas, or may not use a native token at all (e.g., in favor of an ERC20 for fees). Logic relying on 'msg.value > 0' may not be portable.")

BalanceIssue(line) ==
  Issue(line, "Native Token Assumption",
        <<"The '.balance' property was used, assuming a native, value-bearing token.">>,
        "Similar to 'msg.value', be aware that the native token on a custom Subnet may not be AVAX and could have different properties. Logic checking 'address.balance' might behave as expected.")

HardcodedGasIssue(line) ==
  Issue(line, "Hardcoded Gas Amount",
        <<"A low-level call with a hardcoded gas amount ('.call{gas: ...}') was detected.">>,
        "This is a fragile pattern. Gas costs for opcodes can change, and Subnets may have different gas semantics. Avoid hardcoding gas unless absolutely necessary.")

CChainIssue(line, name) ==
  Issue(line, "C-Chain Dependency",
        <<"A hardcoded address for a known C-Chain protocol ({}) was found.", name>>,
        "This contract will not exist on a new Subnet. Pass protocol addresses in the constructor or a setter function to make your contract portable.")

PrecompileMismatchIssue(line, name) ==
  Issue(line, "Precompile Mismatch",
        <<"Contract interacts with the '{}' precompile, but it is NOT enabled in the provided Subnet genesis.", name>>,
        "Ensure your target Subnet's genesis file enables all precompiles your contracts require.")

GasLimitType == "Gas Limit Violation Prediction"

GasLimitIssue(cost, limit) ==
  Issue(0, GasLimitType,
        <<"A function in this contract has an estimated cost of {} gas, which exceeds the target Subnet's blockGasLimit of {}.", cost, limit>>,
        "Optimize expensive functions or deploy to a Subnet with a higher block gas limit.")

\* for (address, name) in CCHAIN_ONLY_ADDRESSES { if line.to_lowercase().contains(..) {push} }
RECURSIVE CChainLoop(_, _, _)
CChainLoop(line_content, line_num, a) ==
  IF a > Len(CCHAIN_ONLY_ADDRESSES) THEN <<>>
  ELSE PushIf(ContainsLower(line_content, CCHAIN_ONLY_ADDRESSES[a][1]),
              CChainIssue(line_num, CCHAIN_ONLY_ADDRESSES[a][2]))
       \o CChainLoop(line_content, line_num, a + 1)

\* precompiles.iter().any(|p| p.eq_ignore_ascii_case(addr))
is_enabled(precompiles, addr) == \E p \in precompiles : Lower(p) = Lower(addr)

\* for (addr, name) in COMMON_PRECOMPILES { .. } under "if let Some(ref precompiles)"
RECURSIVE PrecompileLoop(_, _, _, _)
PrecompileLoop(line_content, line_num, precompiles, a) ==
  IF a > Len(COMMON_PRECOMPILES) THEN <<>>
  ELSE PushIf(ContainsLower(line_content, COMMON_PRECOMPILES[a][1])
                /\ ~is_enabled(precompiles, COMMON_PRECOMPILES[a][1]),
              PrecompileMismatchIssue(line_num, COMMON_PRECOMPILES[a][2]))
       \o PrecompileLoop(line_content, line_num, precompiles, a + 1)

\* body of the per-line loop for line i (1-based)
PortabilityLineIssues(job, ls, i) ==
  LET line_content == ls[i]
      line_num == LineNum(i)
  IN PushIf(IsMatch(chainid_regex, line_content), ChainIdIssue(line_num))
     \o PushIf(IsMatch(msg_value_regex, line_content), MsgValueIssue(line_num))
     \o PushIf(IsMatch(balance_regex, line_content), BalanceIssue(line_num))
     \o PushIf(IsMatch(hardcoded_gas_regex, line_content), HardcodedGasIssue(line_num))
     \o CChainLoop(line_content, line_num, 1)
     \o (IF IsSome(enabled_precompiles(job))
         THEN PrecompileLoop(line_content, line_num, enabled_precompiles(job)[1], 1)
         ELSE <<>>)

RECURSIVE PortabilityLoop(_, _, _)
PortabilityLoop(job, ls, i) ==
  IF i > Len(ls) THEN <<>>
  ELSE PortabilityLineIssues(job, ls, i) \o PortabilityLoop(job, ls, i + 1)

\* the gas-limit check with the comparison taken to include equality
GasLimitCheckInclusive(job) ==
  IF IsSome(subnet_gas_limit(job))
  THEN PushIf(simulated_function_cost >= subnet_gas_limit(job)[1],
              GasLimitIssue(simulated_function_cost, subnet_gas_limit(job)[1]))
  ELSE <<>>

\* "if let Some(limit) = subnet_gas_limit { if simulated_function_cost > limit {push} }"
GasLimitCheck(job) ==
  IF IsSome(subnet_gas_limit(job))
  THEN PushIf(simulated_function_cost > subnet_gas_limit(job)[1],
              GasLimitIssue(simulated_function_cost, subnet_gas_limit(job)[1]))
  ELSE <<>>

\* the issues vector at the end of the scan, before deduplication
PortabilityIssues(job) ==
  PortabilityLoop(job, Lines(job.source_code), 1) \o GasLimitCheck(job)

\* the AnalysisResults the call can return (one per iteration order of the HashSet)
analyze_portability_v3(job) ==
  {[job_id |-> job.job_id, worker_name |-> "SubnetPortabilityWorkerV3", output |-> o] :
     o \in Dedup(PortabilityIssues(job))}


(***************************************************************************)
(* staking_precompile_worker: analyze_staking_precompiles_v2               *)
(***************************************************************************)
\* const STAKING_PRECOMPILES
STAKING_PRECOMPILES ==
  << <<"0x0100000000000000000000000000000000000000", "P-Chain Handler">> >>

\* r"function\s+([a-zA-Z0-9_]+)\s*\((.*?)\)\s*(public|external|internal|private)\s*(.*?)\s*\{"
function_regex ==
  Re(<<Lit("function"), SPlus, WordPlus, SStar, Lit("("), AnyLazy, Lit(")"), SStar,
       Alt(<<<<"public">>, <<"external">>, <<"internal">>, <<"private">>>>),
       SStar, AnyLazy, SStar, Lit("{")>>)

\* r"\bpayable\b"
payable_modifier_regex == Re(<<WB, Lit("payable"), WB>>)

\* r"(?:([a-zA-Z0-9_]+)\s*,\s*)?\s*\)\s*=\s*(?:[a-zA-Z0-9_]+\.)?(call|delegatecall|staticcall)"
low_level_call_regex ==
  Re(<<Opt(<<WordPlus, SStar, Lit(","), SStar>>), SStar, Lit(")"), SStar, Lit("="), SStar,
       Opt(<<WordPlus, Lit(".")>>),
       Alt(<<<<"call">>, <<"delegatecall">>, <<"staticcall">>>>)>>)

\* r"\b(onlyOwner|onlyRole|require\(msg\.sender\s*==\s*[a-zA-Z0-9_]+\)|_checkRole)\b"
access_control_regex ==
  Re(<<WB,
       AltP(<< <<Lit("onlyOwner")>>,
               <<Lit("onlyRole")>>,
               <<Lit("require"), Lit("("), Lit("msg"), Lit("."), Lit("sender"), SStar,
                 Lit("="), Lit("="), SStar, WordPlus, Lit(")")>>,
               <<Lit("_checkRole")>> >>),
       WB>>)

\* format!(r"(?i)\b{}\b", address)
PrecompileRegex(address) == ReCI(<<WB, Lit(address), WB>>)

InteractionType == "P-Chain Precompile Interaction"
MissingPayableType == "Missing Payable Modifier"
UncheckedReturnType == "Unchecked Return Value"
WeakAccessType == "Weak Access Control"

InteractionIssue(line, name) ==
  Issue(line, InteractionType,
        <<"Direct interaction with the {} precompile detected.", name>>,
        "This is a powerful, low-level operation. Review its correctness and security properties. Specific checks below.")

MissingPayableIssue(line, signature) ==
  Issue(line, MissingPayableType,
        <<"Interaction with a staking precompile requires 'payable', but the containing function ('{}') is not marked 'payable'.">> \o signature,
        "Ensure functions interacting with staking precompiles that send AVAX (e.g., delegate, addLiquidity) are marked 'payable'.")

UncheckedReturnIssue(line) ==
  Issue(line, UncheckedReturnType,
        <<"The return value of a low-level call to a precompile is not explicitly checked.">>,
        "Always check the 'success' boolean return value of low-level calls ('(bool success, bytes memory data) = addr.call(...)'). Use 'require(success, \"Call failed\")' to prevent silent failures.")

WeakAccessIssue(line) ==
  Issue(line, WeakAccessType,
        <<"A public/external function interacting with a staking precompile lacks explicit access control.">>,
        "Functions that can alter staking state should be strictly controlled (e.g., 'onlyOwner', multi-sig, or DAO). Public access is a major security risk.")

\* a scan from the first line on: the earliest line j <= i that function_regex matches
FuncStartEarliest(ls, j) ==
  LET D == {d \in 1..j : IsMatch(function_regex, ls[d])}
  IN IF D = {} THEN 0 ELSE CHOOSE d \in D : \A e \in D : d <= e

\* the backward scan "for j in (0..=i).rev()": the nearest line j <= i (1-based) that
\* function_regex matches, 0 when there is none
RECURSIVE FuncStartFrom(_, _)
FuncStartFrom(ls, j) ==
  IF j < 1 THEN 0
  ELSE IF IsMatch(function_regex, ls[j]) THEN LineNum(j)
  ELSE FuncStartFrom(ls, j - 1)

current_func_start_line(ls, i) == FuncStartFrom(ls, i)

\* func_match.get(0).unwrap().as_str() of that line, "" when there is none
current_func_signature(ls, i) ==
  IF current_func_start_line(ls, i) = 0 THEN <<>>
  ELSE MatchText(function_regex, ls[current_func_start_line(ls, i)])

\* the forward scan with each line tested for an idiom before it is tested for "}"
RECURSIVE HasInternalAcIdiomFirst(_, _)
HasInternalAcIdiomFirst(ls, k) ==
  IF k > Len(ls) THEN FALSE
  ELSE IF IsMatch(access_control_regex, ls[k]) THEN TRUE
  ELSE IF Contains(ls[k], "}") THEN FALSE
  ELSE HasInternalAcIdiomFirst(ls, k + 1)

\* the forward scan "for k in i..lines().count()": TRUE iff an access-control idiom is
\* met on a line from k on before a line containing "}" is met
RECURSIVE HasInternalAc(_, _)
HasInternalAc(ls, k) ==
  IF k > Len(ls) THEN FALSE
  ELSE IF Contains(ls[k], "}") THEN FALSE
  ELSE IF IsMatch(access_control_regex, ls[k]) THEN TRUE
  ELSE HasInternalAc(ls, k + 1)

\* line_content.contains("require(")
ContainsRequireCall(s) == \E i \in 1..(Len(s) - 1) : s[i] = "require" /\ s[i + 1] = "("

\* the line holds the comparison sign "=="
ContainsEquality(s) == \E i \in 1..(Len(s) - 1) : s[i] = "=" /\ s[i + 1] = "="

\* line_content.contains("=")
ContainsAssign(s) == Contains(s, "=")

\* the findings reported on the line of the function declaration
ReportLineAtFunction(line_num, func_start_line) == func_start_line

\* line number the per-match findings are reported on
ReportLine(line_num, func_start_line) == line_num

\* the checks made for one precompile match on line i (1-based)
StakingMatchIssues(ls, i, name) ==
  LET line_content == ls[i]
      line_num == LineNum(i)
      sig == current_func_signature(ls, i)
      at == ReportLine(line_num, current_func_start_line(ls, i))
  IN <<InteractionIssue(line_num, name)>>
     \o PushIf(~IsMatch(payable_modifier_regex, sig), MissingPayableIssue(at, sig))
     \o PushIf(IsMatch(low_level_call_regex, line_content)
                 /\ ~ContainsRequireCall(line_content) /\ ~ContainsAssign(line_content),
               UncheckedReturnIssue(at))
     \o PushIf((Contains(sig, "public") \/ Contains(sig, "external"))
                 /\ ~IsMatch(access_control_regex, sig)
                 /\ ~HasInternalAc(ls, i),
               WeakAccessIssue(at))

\* for (address, name) in STAKING_PRECOMPILES { if re.is_match(line_content) {..} }
RECURSIVE StakingAddrLoop(_, _, _)
StakingAddrLoop(ls, i, a) ==
  IF a > Len(STAKING_PRECOMPILES) THEN <<>>
  ELSE (IF IsMatch(PrecompileRegex(STAKING_PRECOMPILES[a][1]), ls[i])
        THEN StakingMatchIssues(ls, i, STAKING_PRECOMPILES[a][2])
        ELSE <<>>)
       \o StakingAddrLoop(ls, i, a + 1)

RECURSIVE StakingLoop(_, _)
StakingLoop(ls, i) ==
  IF i > Len(ls) THEN <<>>
  ELSE StakingAddrLoop(ls, i, 1) \o StakingLoop(ls, i + 1)

\* the issues vector at the end of the scan; it is the output as it stands
StakingIssues(job) == StakingLoop(Lines(job.source_code), 1)

\* the AnalysisResult the call returns (a set, like the other workers' results)
analyze_staking_precompiles_v2(job) ==
  {[job_id |-> job.job_id, worker_name |-> "StakingPrecompileWorkerV2",
    output |-> StakingIssues(job)]}


(***************************************************************************)
(* Inputs: source texts are concatenations of pieces of Solidity text.     *)
(***************************************************************************)
PrecompileAddr == "0x0100000000000000000000000000000000000000"
MinterAddr == "0x0200000000000000000000000000000000000001"
TraderJoeAddr == "0x9Ad6C38BE94206cA50bb0d90783181662f0Cfa10"

ConsensusPieces ==
  { <<"function", " ", "commit", "(", "bytes32", " ", "h", ")", NL>>,
    <<"function", " ", "reveal", "(", ")", NL>>,
    \* a reveal declaration broken over two lines
    <<"function", NL, "reveal", "(", ")", NL>>,
    <<"n", " ", "=", " ", "block", ".", "number", ";", NL>>,
    <<"function", " ", "set", "Owner", "(", "address", " ", "a", ")", NL>>,
    <<"owner", " ", "=", " ", "a", ";", NL>>,
    <<"require", "(", "block", ".", "timestamp", ">", "=", "t", ")", ";", NL>>,
    <<"require", "(", "block", ".", "timestamp", " ", ">", "=", " ", "t", ")", ";", NL>>,
    <<"p", ".", "getReserves", "(", ")", ";", NL>>,
    \* no line end: the next piece continues the line
    <<"q", ".", "GETRESERVES", " ", "(", " ", ")", ";">>,
    <<"contract", " ", "F", " ", "is", " ", "Chainlink", NL>>,
    <<"keccak256", "(", "block", ".", "timestamp", ")", ";", NL>> }

PortabilityPieces ==
  { <<"id", " ", "=", " ", "block", ".", "chainid", ";", NL>>,
    <<"v", " ", "=", " ", "msg", ".", "value", ";">>,
    <<"b", " ", "=", " ", "a", ".", "balance", ";", NL>>,
    <<"t", ".", "call", "{", "gas", ":", "5000", "}", "(", ")", ";", NL>>,
    <<"r", " ", "=", " ", TraderJoeAddr, ";", NL>>,
    <<"m", " ", "=", " ", MinterAddr, ";", NL>>,
    <<"x", ";", NL>> }

StakingPieces ==
  { <<"function", " ", "stake", "(", ")", " ", "public", " ", "{", NL>>,
    <<"function", " ", "stake", "(", ")", " ", "external", " ", "payable", " ", "{", NL>>,
    <<"function", " ", "stake", "(", ")", " ", "public", " ", "onlyOwner", " ", "{", NL>>,
    <<"function", " ", "help", "(", ")", " ", "internal", " ", "{", NL>>,
    <<"a", " ", "=", " ", PrecompileAddr, ";", NL>>,
    <<"(", "ok", ",", ")", " ", "=", " ", PrecompileAddr, ".", "call", "(", "d", ")", ";", NL>>,
    <<"_checkRole", "(", "r", ")", ";", NL>>,
    <<"}", NL>>,
    \* a declaration with the precompile on its own line
    <<"function", " ", "run", "(", ")", " ", "public", " ", "{", " ",
      "a", " ", "=", " ", PrecompileAddr, ";", NL>>,
    \* an access-control call on the line of the closing brace
    <<"_checkRole", "(", "r", ")", ";", " ", "}", NL>>,
    \* a low-level call whose return value is dropped
    <<PrecompileAddr, ".", "call", "(", "d", ")", ";", NL>>,
    \* a validator identifier written into the source
    <<"v", " ", "=", " ", "NodeID", "-", "7", ";", NL>> }

\* the concatenation of a sequence of pieces
RECURSIVE Concat(_)
Concat(ps) == IF ps = <<>> THEN <<>> ELSE Head(ps) \o Concat(Tail(ps))

\* every source made of at most max pieces
Sources(pieces, max) == {Concat(ps) : ps \in UNION {[1..n -> pieces] : n \in 0..max}}

\* the subnet genesis records a job can carry
GenesisChoices ==
  { None,
    Some(Genesis(Some(999999), None)),
    Some(Genesis(Some(1000000), None)),
    Some(Genesis(Some(1000001), None)),
    Some(Genesis(None, Some({}))),
    Some(Genesis(None, Some({MinterAddr}))),
    Some(Genesis(Some(0), Some({PrecompileAddr}))),
    Some(Genesis(None, None)) }

WorkerKinds == {"consensus", "portability", "staking"}

\* struct AnalysisJob of each worker
EvalJobs(kind) ==
  CASE kind = "consensus" ->
         {[job_id |-> "1", source_code |-> c] : c \in Sources(ConsensusPieces, MaxConsensusPieces)}
    [] kind = "portability" ->
         {[job_id |-> "1", source_code |-> c, subnet_genesis |-> g] :
            c \in Sources(PortabilityPieces, MaxPortabilityPieces), g \in GenesisChoices}
    [] kind = "staking" ->
         {[job_id |-> "1", source_code |-> c] : c \in Sources(StakingPieces, MaxStakingPieces)}

\* the analysis function each worker's loop calls
Analyze(kind, job) ==
  CASE kind = "consensus" -> analyze_consensus_safety_v3(job)
    [] kind = "portability" -> analyze_portability_v3(job)
    [] kind = "staking" -> analyze_staking_precompiles_v2(job)


(***************************************************************************)
(* State                                                                   *)
(***************************************************************************)
VARIABLES
  \* the job loop (listen_for_jobs / publish_result)
  running,    \* the worker processes that were started
  queue,      \* the Redis job lists: channel -> payloads, head first
  results,    \* the Redis list "sentinel_results"
  pc,         \* worker -> "Idle" (in BLPOP) or "Processing" (holds a payload)
  job_json,   \* worker -> Some(the payload data[1] it holds), None when Idle
  \* history of the job loop
  submitted,  \* the payloads pushed so far, in order, each with its channel
  taken,      \* worker -> the payloads it dequeued, in order
  pushed,     \* worker -> its RPUSH attempts [job_id, ok], in order
  blpop_errs, \* worker -> number of its BLPOP calls that returned Err
  errors,     \* transport errors so far
  \* one evaluation of an analysis function
  ekind,      \* the worker whose analysis is applied
  ejob,       \* the AnalysisJob it is applied to
  eresult,    \* Some(the AnalysisResult returned), None before the call
  \* the deduplication step on its own
  dissues,    \* a collection of findings
  donce,      \* Some(its deduplication), None before
  dtwice      \* Some(the deduplication of donce), None before

loopVars == <<running, queue, results, pc, job_json, submitted, taken, pushed, blpop_errs, errors>>
evalVars == <<ekind, ejob, eresult>>
dedupVars == <<dissues, donce, dtwice>>
vars == <<running, queue, results, pc, job_json, submitted, taken, pushed, blpop_errs, errors,
          ekind, ejob, eresult, dissues, donce, dtwice>>

(***************************************************************************)
(* The job loop                                                            *)
(***************************************************************************)
\* the worker processes there are
Instances == {"consensus-1", "portability-1", "staking-1", "staking-2"}

\* the sets of worker processes a deployment starts
Deployments ==
  {{"consensus-1"}, {"portability-1"}, {"staking-1"}, {"portability-1", "staking-1"}}

\* two instances of one worker, competing for the jobs of one list
Competitors == {"staking-1", "staking-2"}

KindOf(w) ==
  CASE w = "consensus-1" -> "consensus"
    [] w = "portability-1" -> "portability"
    [] w \in {"staking-1", "staking-2"} -> "staking"

\* let channel = ".."; in listen_for_jobs
Channel(kind) ==
  CASE kind = "consensus" -> "consensus_jobs"
    [] kind = "portability" -> "subnet_portability_jobs"
    [] kind = "staking" -> "staking_precompile_jobs"

Channels == {Channel(k) : k \in WorkerKinds}

\* A payload is the JSON text of a queue entry, written as the record of its members
\* (member names as in the JSON); NotJson is a text that is no JSON object.
NotJson == [raw |-> "not json"]

\* serde: Option<Genesis> from the member subnet_genesis; the result is
\* Some(the Option) when the member deserializes, None when it does not.
\* Genesis and ChainConfig need "config" and "feeConfig"; gasLimit and
\* precompileValidatorAllowList are Options.
ParseGenesis(p) ==
  IF "subnet_genesis" \notin DOMAIN p THEN Some(None)
  ELSE LET g == p.subnet_genesis IN
    IF "config" \notin DOMAIN g THEN None
    ELSE IF "feeConfig" \notin DOMAIN g.config THEN None
    ELSE Some(Some(Genesis(
           IF "gasLimit" \in DOMAIN g.config.feeConfig
             THEN Some(g.config.feeConfig.gasLimit) ELSE None,
           IF "precompileValidatorAllowList" \in DOMAIN g.config
             THEN Some(g.config.precompileValidatorAllowList) ELSE None)))

\* serde_json::from_str::<AnalysisJob>(job_json): Some(job) is Ok(job), None is Err.
\* job_id and source_code are required; members the struct does not have are ignored.
ParseJob(kind, p) ==
  IF ~({"job_id", "source_code"} \subseteq DOMAIN p) THEN None
  ELSE IF kind = "portability"
  THEN (IF IsSome(ParseGenesis(p))
        THEN Some([job_id |-> p.job_id, source_code |-> p.source_code,
                   subnet_genesis |-> ParseGenesis(p)[1]])
        ELSE None)
  ELSE Some([job_id |-> p.job_id, source_code |-> p.source_code])

\* the sources the producers submit to the job loop
LoopSpotRand ==
  <<"q", ".", "GETRESERVES", " ", "(", " ", ")", ";",
    "keccak256", "(", "block", ".", "timestamp", ")", ";", NL>>
LoopPlain == <<"x", ";", NL>>
LoopStake == <<"a", " ", "=", " ", PrecompileAddr, ";", NL>>

\* the payloads a producer can push on a channel under job id id
PayloadChoices(ch, id) ==
  CASE ch = "consensus_jobs" ->
         { [job_id |-> id, source_code |-> LoopSpotRand],
           [job_id |-> id, source_code |-> LoopPlain],
           [job_id |-> id],
           NotJson }
    [] ch = "subnet_portability_jobs" ->
         { [job_id |-> id, source_code |-> <<>>,
            subnet_genesis |-> [config |-> [feeConfig |-> [gasLimit |-> 0]]]],
           [job_id |-> id, source_code |-> LoopPlain,
            subnet_genesis |-> [config |-> [precompileValidatorAllowList |-> {}]]] }
    [] ch = "staking_precompile_jobs" ->
         { [job_id |-> id, source_code |-> LoopStake],
           [job_id |-> id, source_code |-> LoopPlain],
           NotJson }

\* the job the worker holds, parsed
CurrentJob(w) == ParseJob(KindOf(w), job_json[w][1])

\* a producer pushes one payload on a job list (RPUSH by the API side)
Enqueue ==
  /\ Len(submitted) < MaxJobs
  /\ \E ch \in {Channel(KindOf(w)) : w \in running} : \E p \in PayloadChoices(ch, ToString(Len(submitted) + 1)) :
       /\ queue' = [queue EXCEPT ![ch] = Append(@, p)]
       /\ submitted' = Append(submitted, [channel |-> ch, payload |-> p])
  /\ UNCHANGED <<running, results, pc, job_json, taken, pushed, blpop_errs, errors>>
  /\ UNCHANGED evalVars /\ UNCHANGED dedupVars

\* the list after a read of its head that leaves the head in place
AfterPeek(list) == list

\* the list after BLPOP has removed its head
AfterBlpop(list) == Tail(list)

\* con.blpop(channel, 0) returns Ok(data): the head of the list is removed and held
BlpopOk(w) ==
  /\ pc[w] = "Idle"
  /\ queue[Channel(KindOf(w))] # <<>>
  /\ job_json' = [job_json EXCEPT ![w] = Some(Head(queue[Channel(KindOf(w))]))]
  /\ queue' = [queue EXCEPT ![Channel(KindOf(w))] = AfterBlpop(@)]
  /\ taken' = [taken EXCEPT ![w] = Append(@, Head(queue[Channel(KindOf(w))]))]
  /\ pc' = [pc EXCEPT ![w] = "Processing"]
  /\ UNCHANGED <<running, results, submitted, pushed, blpop_errs, errors>>
  /\ UNCHANGED evalVars /\ UNCHANGED dedupVars

\* con.blpop(channel, 0) returns Err(e): logged, and the loop goes round
BlpopErr(w) ==
  /\ pc[w] = "Idle"
  /\ errors < MaxTransportErrors
  /\ errors' = errors + 1
  /\ blpop_errs' = [blpop_errs EXCEPT ![w] = @ + 1]
  /\ UNCHANGED <<running, queue, results, pc, job_json, submitted, taken, pushed>>
  /\ UNCHANGED evalVars /\ UNCHANGED dedupVars

\* a parse error answered with an error result
ParseErrResultsPublished(w) ==
  Append(results, [job_id |-> "unknown", worker_name |-> KindOf(w), output |-> <<>>])

\* what the arm "Err(e) => eprintln!(..)" of the parse does to the results list
ParseErrResults(w) == results

\* serde_json::from_str returns Err(e): logged, nothing published, back to BLPOP
ParseErr(w) ==
  /\ pc[w] = "Processing"
  /\ ~IsSome(CurrentJob(w))
  /\ results' = ParseErrResults(w)
  /\ pc' = [pc EXCEPT ![w] = "Idle"]
  /\ job_json' = [job_json EXCEPT ![w] = None]
  /\ UNCHANGED <<running, queue, submitted, taken, pushed, blpop_errs, errors>>
  /\ UNCHANGED evalVars /\ UNCHANGED dedupVars

\* serde_json::to_string(&result): the JSON object of the AnalysisResult
ToJson(result) ==
  [job_id |-> result.job_id, worker_name |-> result.worker_name, output |-> result.output]

\* a push that is sent twice
RPushTwice(list, item) == Append(Append(list, item), item)

\* con.rpush(channel, result_json) that returns Ok: the list with the item at its tail
RPush(list, item) == Append(list, item)

\* a failed RPUSH after which the worker keeps the job and publishes again
AfterPushErrRetry(w) == "Processing"

\* where the loop is after publish_result has logged a failed RPUSH
AfterPushErr(w) == "Idle"

\* the analysis called with the source text of the payload dequeued before this one
JobToAnalyzeStale(w) ==
  LET n == Len(taken[w])
      prev == IF n >= 2 THEN ParseJob(KindOf(w), taken[w][n - 1]) ELSE None
  IN IF IsSome(prev)
     THEN [CurrentJob(w)[1] EXCEPT !.source_code = prev[1].source_code]
     ELSE CurrentJob(w)[1]

\* the job the analysis function is called with: &parsed_job
JobToAnalyze(w) == CurrentJob(w)[1]

\* "let result = analyze(&parsed_job); publish_result(con, result);" with RPUSH Ok
HandleJob(w) ==
  /\ pc[w] = "Processing"
  /\ IsSome(CurrentJob(w))
  /\ \E result \in Analyze(KindOf(w), JobToAnalyze(w)) :
       /\ results' = RPush(results, ToJson(result))
       /\ pushed' = [pushed EXCEPT ![w] = Append(@, [job_id |-> result.job_id, ok |-> TRUE])]
  /\ pc' = [pc EXCEPT ![w] = "Idle"]
  /\ job_json' = [job_json EXCEPT ![w] = None]
  /\ UNCHANGED <<running, queue, submitted, taken, blpop_errs, errors>>
  /\ UNCHANGED evalVars /\ UNCHANGED dedupVars

\* the same with RPUSH returning Err(e): logged in publish_result, the result is dropped
HandleJobPushErr(w) ==
  /\ pc[w] = "Processing"
  /\ IsSome(CurrentJob(w))
  /\ errors < MaxTransportErrors
  /\ \E result \in Analyze(KindOf(w), JobToAnalyze(w)) :
       pushed' = [pushed EXCEPT ![w] = Append(@, [job_id |-> result.job_id, ok |-> FALSE])]
  /\ errors' = errors + 1
  /\ pc' = [pc EXCEPT ![w] = AfterPushErr(w)]
  /\ job_json' = [job_json EXCEPT ![w] = IF AfterPushErr(w) = "Idle" THEN None ELSE @]
  /\ UNCHANGED <<running, queue, results, submitted, taken, blpop_errs>>
  /\ UNCHANGED evalVars /\ UNCHANGED dedupVars

LoopEmpty ==
  /\ queue = [ch \in Channels |-> <<>>]
  /\ results = <<>>
  /\ pc = [w \in Instances |-> "Idle"]
  /\ job_json = [w \in Instances |-> None]
  /\ submitted = <<>>
  /\ taken = [w \in Instances |-> <<>>]
  /\ pushed = [w \in Instances |-> <<>>]
  /\ blpop_errs = [w \in Instances |-> 0]
  /\ errors = 0

LoopInit == running \in Deployments /\ LoopEmpty

\* no worker process runs
LoopIdle == running = {} /\ LoopEmpty

EvalIdle ==
  /\ ekind = "consensus"
  /\ ejob = [job_id |-> "1", source_code |-> <<>>]
  /\ eresult = None

DedupIdle ==
  /\ dissues = <<>>
  /\ donce = None
  /\ dtwice = None

Init == LoopInit /\ EvalIdle /\ DedupIdle

Next ==
  \/ Enqueue
  \/ \E w \in running : BlpopOk(w)
  \/ \E w \in running : BlpopErr(w)
  \/ \E w \in running : ParseErr(w)
  \/ \E w \in running : HandleJob(w)
  \/ \E w \in running : HandleJobPushErr(w)

Spec == Init /\ [][Next]_vars


(***************************************************************************)
(* One evaluation of an analysis function on a source drawn from the       *)
(* bounded input sets.                                                     *)
(***************************************************************************)
EvalInit ==
  /\ ekind \in WorkerKinds
  /\ ejob \in EvalJobs(ekind)
  /\ eresult = None

\* let result = analyze_consensus_safety_v3(&parsed_job);
EvalConsensus ==
  /\ ekind = "consensus"
  /\ eresult = None
  /\ \E r \in analyze_consensus_safety_v3(ejob) : eresult' = Some(r)
  /\ UNCHANGED <<ekind, ejob>>
  /\ UNCHANGED loopVars /\ UNCHANGED dedupVars

\* let result = analyze_portability_v3(&parsed_job);
EvalPortability ==
  /\ ekind = "portability"
  /\ eresult = None
  /\ \E r \in analyze_portability_v3(ejob) : eresult' = Some(r)
  /\ UNCHANGED <<ekind, ejob>>
  /\ UNCHANGED loopVars /\ UNCHANGED dedupVars

\* let result = analyze_staking_precompiles_v2(&parsed_job);
EvalStaking ==
  /\ ekind = "staking"
  /\ eresult = None
  /\ \E r \in analyze_staking_precompiles_v2(ejob) : eresult' = Some(r)
  /\ UNCHANGED <<ekind, ejob>>
  /\ UNCHANGED loopVars /\ UNCHANGED dedupVars

InitEval == LoopIdle /\ EvalInit /\ DedupIdle

NextEval == EvalConsensus \/ EvalPortability \/ EvalStaking

SpecEval == InitEval /\ [][NextEval]_vars

\* the job loop run by two instances of the staking worker on one job list
InitCompete == running = Competitors /\ LoopEmpty /\ EvalIdle /\ DedupIdle

SpecCompete == InitCompete /\ [][Next]_vars

\* one evaluation of the staking precompile worker's analysis function
InitStaking == InitEval /\ ekind = "staking"

NextStaking == EvalStaking

SpecStaking == InitStaking /\ [][NextStaking]_vars

(***************************************************************************)
(* The deduplication step applied to a collection of findings, and again   *)
(* to its own output.                                                      *)
(***************************************************************************)
\* the findings the collections are made of
DedupUniverse ==
  {GasLimitIssue(simulated_function_cost, 0), ChainIdIssue(1), MsgValueIssue(1), BalanceIssue(1)}

DedupInit ==
  /\ dissues \in UNION {[1..n -> DedupUniverse] : n \in 0..MaxIssues}
  /\ donce = None
  /\ dtwice = None

\* unique_issues / output of the collection
DedupOnce ==
  /\ donce = None
  /\ \E o \in Dedup(dissues) : donce' = Some(o)
  /\ UNCHANGED <<dissues, dtwice>>
  /\ UNCHANGED loopVars /\ UNCHANGED evalVars

\* the same step applied to that output
DedupTwice ==
  /\ IsSome(donce)
  /\ dtwice = None
  /\ \E o \in Dedup(donce[1]) : dtwice' = Some(o)
  /\ UNCHANGED <<dissues, donce>>
  /\ UNCHANGED loopVars /\ UNCHANGED evalVars

InitDedup == LoopIdle /\ EvalIdle /\ DedupInit

NextDedup == DedupOnce \/ DedupTwice

SpecDedup == InitDedup /\ [][NextDedup]_vars


(***************************************************************************)
(* Properties of the job loop                                              *)
(***************************************************************************)
\* positions in the results list of the results that carry job id id
ResultsFor(id) == {i \in DOMAIN results : results[i].job_id = id}

\* positions among worker w's RPUSH attempts of those for job id id
PushesFor(w, id) == {i \in DOMAIN pushed[w] : pushed[w][i].job_id = id}

\* the k-th payload worker w dequeued parses into an AnalysisJob
WellFormed(w, k) == IsSome(ParseJob(KindOf(w), taken[w][k]))

\* the job it parses into
JobAt(w, k) == ParseJob(KindOf(w), taken[w][k])[1]

\* worker w is through with the k-th payload it dequeued
Finished(w, k) == k < Len(taken[w]) \/ pc[w] = "Idle"

\* the results list holds exactly one result for the job, and it is a result of the analysis
OneResultOf(w, job) ==
  /\ Cardinality(ResultsFor(job.job_id)) = 1
  /\ \A i \in ResultsFor(job.job_id) :
       \E r \in Analyze(KindOf(w), job) : results[i] = ToJson(r)

\* worker w has met a transport error
HadTransportError(w) ==
  blpop_errs[w] > 0 \/ \E i \in DOMAIN pushed[w] : ~pushed[w][i].ok

\* C1 as stated: every payload a worker dequeued that parses into a job has exactly one
\* result with its job_id on the results list by the time the worker dequeues again (is
\* Idle, or holds a later payload), and none while the worker still holds it.
C1_ExactlyOneResultPerJob ==
  \A w \in running : \A k \in DOMAIN taken[w] :
    WellFormed(w, k) =>
      IF Finished(w, k) THEN OneResultOf(w, JobAt(w, k))
      ELSE ResultsFor(JobAt(w, k).job_id) = {}

\* C1 amended: for every payload a worker dequeued that parses into a job, the worker
\* makes exactly one push of a result before it dequeues again and none while it holds
\* the payload; when that push succeeds the results list holds exactly one result with
\* the job's id, a result of the analysis of that job (an empty finding list included);
\* when the push fails it holds none.
C1_OnePushPerJob ==
  \A w \in running : \A k \in DOMAIN taken[w] :
    WellFormed(w, k) =>
      IF Finished(w, k)
      THEN /\ Cardinality(PushesFor(w, JobAt(w, k).job_id)) = 1
           /\ \A i \in PushesFor(w, JobAt(w, k).job_id) :
                IF pushed[w][i].ok THEN OneResultOf(w, JobAt(w, k))
                ELSE ResultsFor(JobAt(w, k).job_id) = {}
      ELSE /\ PushesFor(w, JobAt(w, k).job_id) = {}
           /\ ResultsFor(JobAt(w, k).job_id) = {}

\* C1 witness: a worker is back in BLPOP after two payloads, and the results list
\* holds a result with an empty finding list and one with findings
C1_Witness ==
  /\ \E w \in running : pc[w] = "Idle" /\ Len(taken[w]) >= 2
  /\ \E i \in DOMAIN results : results[i].output = <<>>
  /\ \E i \in DOMAIN results : results[i].output # <<>>

\* C2: a step in which a worker finds that the payload it holds does not parse leaves
\* the results list as it is and takes the worker back to Idle; no result ever carries
\* the job_id of a malformed payload; and a well-formed job the worker dequeues after a
\* malformed payload is pushed once and, when the push succeeds, has its one result.
C2_MalformedDropped ==
  /\ [][\A w \in running :
          (pc[w] = "Processing" /\ ~IsSome(CurrentJob(w)) /\ pc'[w] # pc[w])
            => (results' = results /\ pc'[w] = "Idle" /\ pushed'[w] = pushed[w])]_vars
  /\ [](\A w \in running : \A k \in DOMAIN taken[w] :
          ~WellFormed(w, k) =>
            /\ ("job_id" \in DOMAIN taken[w][k] => ResultsFor(taken[w][k].job_id) = {})
            /\ \A m \in DOMAIN taken[w] :
                 (m > k /\ WellFormed(w, m) /\ Finished(w, m)) =>
                   /\ Cardinality(PushesFor(w, JobAt(w, m).job_id)) = 1
                   /\ \A i \in PushesFor(w, JobAt(w, m).job_id) :
                        pushed[w][i].ok => OneResultOf(w, JobAt(w, m)))

\* C2 witness: a worker dropped a malformed payload, then dequeued a well-formed job and
\* published its result, the only result on the list
C2_Witness ==
  \E w \in running :
    /\ Len(taken[w]) = 2 /\ pc[w] = "Idle"
    /\ ~WellFormed(w, 1) /\ WellFormed(w, 2)
    /\ Len(results) = 1 /\ results[1].job_id = JobAt(w, 2).job_id

\* C3 as stated: once a worker has met a transport error (a failed BLPOP or a failed
\* RPUSH) it makes no further dequeue, successful or failed, and no further push.
C3_TransportErrorIsFatal ==
  [][\A w \in running :
       HadTransportError(w) =>
         /\ taken'[w] = taken[w]
         /\ blpop_errs'[w] = blpop_errs[w]
         /\ pushed'[w] = pushed[w]]_vars

\* C3 amended: a transport error is not retried for the job at hand and is not fatal: a
\* failed push is not repeated (no job is pushed twice by a worker, a worker holding a
\* payload has not pushed for it yet, and a job whose push failed has no result on the
\* results list); after a failed pop or push the worker goes on with its next blocking
\* pop.
C3_NoRetryOfFailedPush ==
  \A w \in running :
    /\ \A i, j \in DOMAIN pushed[w] : pushed[w][i].job_id = pushed[w][j].job_id => i = j
    /\ \A i \in DOMAIN pushed[w] : ~pushed[w][i].ok => ResultsFor(pushed[w][i].job_id) = {}
    /\ (pc[w] = "Processing" /\ IsSome(CurrentJob(w)))
         => PushesFor(w, CurrentJob(w)[1].job_id) = {}
    /\ Len(pushed[w]) <= Len(taken[w])

\* C3 witness: a worker whose BLPOP failed and whose push of one job failed has
\* afterwards dequeued and published a later job
C3_Witness ==
  \E w \in running :
    /\ blpop_errs[w] > 0
    /\ \E i, j \in DOMAIN pushed[w] : i < j /\ ~pushed[w][i].ok /\ pushed[w][j].ok
    /\ pc[w] = "Idle"

\* the payload submitted under job id id
SubmittedIndex(id) == CHOOSE k \in DOMAIN submitted : ToString(k) = id

\* (source text, external context) of the job a result belongs to, with the worker
InputOf(r) ==
  LET p == submitted[SubmittedIndex(r.job_id)].payload
  IN <<r.worker_name, p.source_code,
       IF "subnet_genesis" \in DOMAIN p THEN Some(p.subnet_genesis) ELSE None>>

\* C6: any two results on the results list that belong to jobs with the same source text
\* and the same external context (handled by the same worker) hold the same set of
\* findings, whatever was submitted and processed between the two jobs.
C6_SameInputSameFindings ==
  \A i, j \in DOMAIN results :
    InputOf(results[i]) = InputOf(results[j])
      => HashSetOf(results[i].output) = HashSetOf(results[j].output)

\* C6 witness: two results for the same source, with another payload handled by the same
\* worker in between, hold the same findings in a different order
C6_Witness ==
  \E i, j \in DOMAIN results :
    /\ InputOf(results[i]) = InputOf(results[j])
    /\ results[i].output # results[j].output
    /\ Len(results[i].output) >= 2
    /\ \E k \in DOMAIN submitted :
         /\ SubmittedIndex(results[i].job_id) < k /\ k < SubmittedIndex(results[j].job_id)
         /\ submitted[k].channel = submitted[SubmittedIndex(results[i].job_id)].channel

\* the dequeues (instance, position) of the payload submitted under job id id
TakersOf(id) ==
  {wk \in UNION {{<<w, k>> : k \in DOMAIN taken[w]} : w \in running} :
     "job_id" \in DOMAIN taken[wk[1]][wk[2]] /\ taken[wk[1]][wk[2]].job_id = id}

\* the k-th submitted payload parses into a job of the worker of its channel
SubmittedWellFormed(k) ==
  \E w \in running :
    /\ Channel(KindOf(w)) = submitted[k].channel
    /\ IsSome(ParseJob(KindOf(w), submitted[k].payload))

\* C14 as stated: with competing instances, every well-formed job an instance has
\* dequeued and is through with has exactly one result on the results list, a result of
\* the analysis of that job.
C14_ExactlyOneResultCompeting ==
  \A wk \in UNION {{<<w, k>> : k \in DOMAIN taken[w]} : w \in running} :
    (WellFormed(wk[1], wk[2]) /\ Finished(wk[1], wk[2]))
      => OneResultOf(wk[1], JobAt(wk[1], wk[2]))

\* C14 amended: with competing instances, under any interleaving, every payload is
\* dequeued by at most one instance; no job has two results; a well-formed job an
\* instance is through with has exactly one result when the push of that instance
\* succeeded and none when it failed; and every result is a result of the analysis of
\* the job whose job_id it carries.
C14_AtMostOneResultCompeting ==
  /\ \A k \in DOMAIN submitted : Cardinality(TakersOf(ToString(k))) <= 1
  /\ \A k \in DOMAIN submitted : Cardinality(ResultsFor(ToString(k))) <= 1
  /\ \A wk \in UNION {{<<w, k>> : k \in DOMAIN taken[w]} : w \in running} :
       (WellFormed(wk[1], wk[2]) /\ Finished(wk[1], wk[2])) =>
         LET job == JobAt(wk[1], wk[2])
         IN /\ Cardinality(PushesFor(wk[1], job.job_id)) = 1
            /\ \A i \in PushesFor(wk[1], job.job_id) :
                 Cardinality(ResultsFor(job.job_id)) = (IF pushed[wk[1]][i].ok THEN 1 ELSE 0)
  /\ \A i \in DOMAIN results :
       LET k == SubmittedIndex(results[i].job_id)
       IN /\ SubmittedWellFormed(k)
          /\ \E r \in Analyze("staking", ParseJob("staking", submitted[k].payload)[1]) :
               results[i] = ToJson(r)

\* C14 witness: two instances have each dequeued and published a job, the jobs differ
\* in their findings, and the result of the job submitted second is first on the list
C14_Witness ==
  /\ \A w \in Competitors : w \in running /\ Len(taken[w]) >= 1 /\ pc[w] = "Idle"
  /\ Len(results) = 2
  /\ results[1].job_id = "2" /\ results[2].job_id = "1"
  /\ results[1].output # results[2].output

(***************************************************************************)
(* Properties of the analysis functions                                    *)
(***************************************************************************)
\* the output of the evaluation
Output == eresult[1].output

\* the lines of the evaluated source
SourceLines == Lines(ejob.source_code)

\* positions in the output of the findings of one type
OfType(t) == {i \in DOMAIN Output : Output[i].issue_type = t}

\* C4: the output list of every evaluation, by any of the three workers, holds no two
\* findings equal in line, issue_type, description and recommendation.
C4_NoDuplicateFindings ==
  IsSome(eresult) => \A i, j \in DOMAIN Output : Output[i] = Output[j] => i = j

\* C4 witness: the staking worker, which has no deduplication step, reports two findings
\* that agree in everything but the line
C4_Witness ==
  /\ IsSome(eresult) /\ ekind = "staking"
  /\ \E i, j \in DOMAIN Output :
       /\ Output[i].line # Output[j].line
       /\ [Output[i] EXCEPT !.line = 0] = [Output[j] EXCEPT !.line = 0]

\* C5: every finding of every evaluation has line 0, or a line between 1 and the number
\* of lines of the source text.
C5_LineInSource ==
  IsSome(eresult) =>
    \A i \in DOMAIN Output : Output[i].line = 0 \/ Output[i].line \in 1..Len(SourceLines)

\* C5 witness: an output with a finding on line 0 and a finding on the last line of the source
C5_Witness ==
  /\ IsSome(eresult)
  /\ \E i \in DOMAIN Output : Output[i].line = 0
  /\ \E i \in DOMAIN Output : Output[i].line = Len(SourceLines) /\ Output[i].line > 1

\* C5 witness of the empty source: a finding on line 0 of a source with no line
C5_WitnessEmptySource ==
  IsSome(eresult) /\ ejob.source_code = <<>> /\ Output # <<>>

\* the commit-reveal conditions of the source
HasCommitReveal(code) == IsMatch(commit_regex, code) /\ IsMatch(reveal_regex, code)
HasBlockNumber(code) == IsMatch(block_number_regex, code)

\* C8: the consensus worker's output holds exactly one reorg-safety finding when the
\* source has a commit function taking bytes32 and a reveal function and block.number
\* occurs nowhere, and none otherwise; its line is that of the first line matching the
\* reveal pattern, or 0 when no single line matches it.
C8_ReorgFinding ==
  (IsSome(eresult) /\ ekind = "consensus") =>
    IF HasCommitReveal(ejob.source_code) /\ ~HasBlockNumber(ejob.source_code)
    THEN /\ Cardinality(OfType(ReorgType)) = 1
         /\ \A i \in OfType(ReorgType) :
              IF \E n \in DOMAIN SourceLines : IsMatch(reveal_regex, SourceLines[n])
              THEN /\ IsMatch(reveal_regex, SourceLines[Output[i].line])
                   /\ \A n \in 1..(Output[i].line - 1) : ~IsMatch(reveal_regex, SourceLines[n])
              ELSE Output[i].line = 0
    ELSE OfType(ReorgType) = {}

\* C8 witness: a reorg-safety finding on the line of a reveal function that is not the first line
C8_Witness ==
  /\ IsSome(eresult) /\ ekind = "consensus"
  /\ \E i \in OfType(ReorgType) : Output[i].line >= 2

\* C8 witness of the suppression: commit and reveal functions and block.number, no finding
C8_WitnessSuppressed ==
  /\ IsSome(eresult) /\ ekind = "consensus"
  /\ HasCommitReveal(ejob.source_code) /\ HasBlockNumber(ejob.source_code)

\* a comparison (> or >=) against block.timestamp or block.number, however it is spaced
time_comparison ==
  Re(<<WB, Alt(<<<<"block", ".", "timestamp">>, <<"block", ".", "number">>>>), WB,
       SStar, Lit(">")>>)

\* C9 as stated: the missing-timelock finding is emitted at most once; it is not emitted
\* when the source holds a comparison against block.timestamp or block.number, however
\* spaced; it is emitted once, at the first line matching the setter pattern or 0, when
\* the source defines a privileged-role setter, names a role and holds no such comparison.
C9_TimelockFinding ==
  (IsSome(eresult) /\ ekind = "consensus") =>
    /\ Cardinality(OfType(MultiTxType)) <= 1
    /\ IsMatch(time_comparison, ejob.source_code) => OfType(MultiTxType) = {}
    /\ (/\ IsMatch(critical_setter_regex, ejob.source_code)
        /\ IsMatch(critical_variable_regex, ejob.source_code)
        /\ ~IsMatch(time_comparison, ejob.source_code))
         => /\ Cardinality(OfType(MultiTxType)) = 1
            /\ \A i \in OfType(MultiTxType) :
                 Output[i].line = FirstMatchingLine(critical_setter_regex, SourceLines)

\* positions in the output of the spot-price findings on line n
SpotFindingsOn(n) == {i \in OfType(SpotPriceType) : Output[i].line = n}

\* C10: the consensus worker's output holds a spot-price finding for line n exactly when
\* line n holds a call of a reserve/balance/token accessor and the price-feed exemption
\* pattern matches nowhere in the source; with the exemption anywhere in the file there
\* is no spot-price finding at all.
C10_SpotPriceFinding ==
  (IsSome(eresult) /\ ekind = "consensus") =>
    /\ \A n \in DOMAIN SourceLines :
         Cardinality(SpotFindingsOn(n)) =
           (IF IsMatch(spot_price_regex, SourceLines[n])
               /\ ~IsMatch(is_price_feed_contract_regex, ejob.source_code)
            THEN 1 ELSE 0)
    /\ \A i \in OfType(SpotPriceType) : Output[i].line \in DOMAIN SourceLines

\* C10 witness: an accessor call on a line before the exemption text, and no spot-price finding
C10_Witness ==
  /\ IsSome(eresult) /\ ekind = "consensus"
  /\ OfType(SpotPriceType) = {}
  /\ \E n, m \in DOMAIN SourceLines :
       /\ n < m
       /\ IsMatch(spot_price_regex, SourceLines[n])
       /\ IsMatch(is_price_feed_contract_regex, SourceLines[m])

\* C10 witness of the finding: a spot-price finding on a line that is not the first
C10_WitnessFinding ==
  /\ IsSome(eresult) /\ ekind = "consensus"
  /\ \E i \in OfType(SpotPriceType) : Output[i].line >= 2

(***************************************************************************)
(* Properties of the deduplication step                                    *)
(***************************************************************************)
\* C7: deduplicating the output of the deduplication gives the same findings, each once:
\* the same set, in a list of the same length.
C7_DedupIdempotent ==
  IsSome(dtwice) =>
    /\ HashSetOf(dtwice[1]) = HashSetOf(donce[1])
    /\ Len(dtwice[1]) = Len(donce[1])
    /\ HashSetOf(donce[1]) = HashSetOf(dissues)

\* C7 witness: a collection with a repeated finding and a line-0 finding, deduplicated
\* twice, the second time into another order
C7_Witness ==
  /\ IsSome(dtwice)
  /\ Len(donce[1]) < Len(dissues)
  /\ \E i \in DOMAIN dissues : dissues[i].line = 0
  /\ dtwice[1] # donce[1]

(***************************************************************************)
(* Properties of the staking precompile worker                             *)
(***************************************************************************)
\* the lines of a source that hold the known precompile address
PrecompileLines(ls) ==
  {i \in DOMAIN ls : IsMatch(PrecompileRegex(PrecompileAddr), ls[i])}

\* positions in a finding list of the findings on line i
FindingsOn(out, i) == {k \in DOMAIN out : out[k].line = i}

\* the finding types a finding list reports on line i
TypesOn(out, i) == {out[k].issue_type : k \in FindingsOn(out, i)}

\* the lines at or before line i that hold a function declaration
DeclLines(ls, i) == {d \in 1..i : IsMatch(function_regex, ls[d])}

\* the nearest of them, 0 when there is none
NearestDecl(ls, i) ==
  LET D == DeclLines(ls, i)
  IN IF D = {} THEN 0 ELSE CHOOSE d \in D : \A e \in D : e <= d

\* the text of the declaration on line d, from 'function' to the opening brace; no
\* text for line 0
DeclText(ls, d) == IF d = 0 THEN <<>> ELSE MatchText(function_regex, ls[d])

\* the first line from line i on that holds a closing brace, one past the end if none
RECURSIVE FirstBraceFrom(_, _)
FirstBraceFrom(ls, i) ==
  IF i > Len(ls) THEN i
  ELSE IF Contains(ls[i], "}") THEN i
  ELSE FirstBraceFrom(ls, i + 1)

\* a text holds an access-control idiom
HasIdiom(s) == IsMatch(access_control_regex, s)

\* a declaration text says public or external
PublicOrExternal(sig) == Contains(sig, "public") \/ Contains(sig, "external")

\* C11: a line that holds the precompile address, in a function (the nearest declaration
\* at or before the line) declared public or external without payable, with no
\* access-control idiom in the declaration nor on any line from the declaration to the
\* first closing brace at or after the line, gets exactly three findings, all on that
\* line: precompile interaction, missing payable modifier, weak access control.
C11_ThreeFindings ==
  (IsSome(eresult) /\ ekind = "staking") =>
    LET ls == SourceLines
        out == Output
    IN \A i \in PrecompileLines(ls) :
         LET d == NearestDecl(ls, i)
             sig == DeclText(ls, d)
         IN (/\ d > 0
             /\ PublicOrExternal(sig)
             /\ ~IsMatch(payable_modifier_regex, sig)
             /\ ~HasIdiom(sig)
             /\ \A n \in d..FirstBraceFrom(ls, i) : n \in DOMAIN ls => ~HasIdiom(ls[n]))
              => /\ Cardinality(FindingsOn(out, i)) = 3
                 /\ TypesOn(out, i) = {InteractionType, MissingPayableType, WeakAccessType}

\* C11 witness: the address on a line after the line of a public declaration, three
\* findings on the line of the address and none on the line of the declaration
C11_Witness ==
  /\ IsSome(eresult) /\ ekind = "staking"
  /\ \E i \in PrecompileLines(SourceLines) :
       LET d == NearestDecl(SourceLines, i)
       IN /\ d > 0 /\ d < i
          /\ PublicOrExternal(DeclText(SourceLines, d))
          /\ Cardinality(FindingsOn(Output, i)) = 3
          /\ FindingsOn(Output, d) = {}

\* positions in a finding list of the findings of type ty on line i
TypedOn(out, i, ty) == {k \in FindingsOn(out, i) : out[k].issue_type = ty}

\* C15: for every line that holds the precompile address, the function context is the
\* nearest line at or before it that matches the declaration pattern, with the matched
\* text as signature, and is absent (start line 0, empty signature) when no line
\* matches. The missing-payable finding of the line goes by that signature: present,
\* quoting the signature, exactly when the signature has no payable; so without a
\* context it is present and quotes the empty text, and there is no weak-access finding.
C15_BackwardScan ==
  (IsSome(eresult) /\ ekind = "staking") =>
    LET ls == SourceLines
        out == Output
    IN \A i \in PrecompileLines(ls) :
         LET d == NearestDecl(ls, i)
             sig == DeclText(ls, d)
         IN /\ current_func_start_line(ls, i) = d
            /\ current_func_signature(ls, i) = sig
            /\ Cardinality(TypedOn(out, i, MissingPayableType)) =
                 (IF IsMatch(payable_modifier_regex, sig) THEN 0 ELSE 1)
            /\ \A k \in TypedOn(out, i, MissingPayableType) :
                 out[k] = MissingPayableIssue(i, sig)
            /\ d = 0 => /\ sig = <<>>
                        /\ TypedOn(out, i, MissingPayableType) # {}
                        /\ TypedOn(out, i, WeakAccessType) = {}

\* C15 witness: two declarations before the address, the earlier one without payable
\* and the nearer one with it, and no missing-payable finding for the address
C15_Witness ==
  /\ IsSome(eresult) /\ ekind = "staking"
  /\ \E i \in PrecompileLines(SourceLines) :
       LET D == DeclLines(SourceLines, i)
       IN /\ Cardinality(D) = 2
          /\ \E e \in D :
               /\ e < NearestDecl(SourceLines, i)
               /\ ~IsMatch(payable_modifier_regex, DeclText(SourceLines, e))
          /\ IsMatch(payable_modifier_regex, DeclText(SourceLines, NearestDecl(SourceLines, i)))
          /\ TypedOn(Output, i, MissingPayableType) = {}

\* C15 witness of the absent context: the address on a line with no declaration at or
\* before it, after a line that is not a declaration; missing payable and no weak access
C15_WitnessAbsent ==
  /\ IsSome(eresult) /\ ekind = "staking"
  /\ \E i \in PrecompileLines(SourceLines) :
       /\ i >= 2 /\ DeclLines(SourceLines, i) = {}
       /\ TypedOn(Output, i, MissingPayableType) # {}
       /\ TypedOn(Output, i, WeakAccessType) = {}

\* the lines the forward scan from line i tests for an idiom: from line i up to, but not
\* including, the first line that holds a closing brace
ScanZone(ls, i) == i..(FirstBraceFrom(ls, i) - 1)

\* line i holds the address in a public or external function whose weak-access finding
\* is present
WeakReported(ls, out, i) ==
  /\ i \in PrecompileLines(ls)
  /\ PublicOrExternal(DeclText(ls, NearestDecl(ls, i)))
  /\ TypedOn(out, i, WeakAccessType) # {}

\* C16: for a line that holds the address in a public or external function, the
\* weak-access finding is missing only if an access-control idiom is in the signature or
\* on a line from that line up to, not including, the first line with a closing brace;
\* idioms between the declaration and the line, on the closing-brace line or after it do
\* not suppress the finding.
C16_ForwardScan ==
  (IsSome(eresult) /\ ekind = "staking") =>
    LET ls == SourceLines
        out == Output
    IN \A i \in PrecompileLines(ls) :
         LET sig == DeclText(ls, NearestDecl(ls, i))
         IN (PublicOrExternal(sig) /\ TypedOn(out, i, WeakAccessType) = {})
              => \/ HasIdiom(sig)
                 \/ \E n \in ScanZone(ls, i) : HasIdiom(ls[n])

\* C16 witness: an idiom on the line of the first closing brace after the address, and
\* the weak-access finding reported
C16_Witness ==
  /\ IsSome(eresult) /\ ekind = "staking"
  /\ \E i \in DOMAIN SourceLines :
       /\ WeakReported(SourceLines, Output, i)
       /\ FirstBraceFrom(SourceLines, i) \in DOMAIN SourceLines
       /\ FirstBraceFrom(SourceLines, i) > i
       /\ HasIdiom(SourceLines[FirstBraceFrom(SourceLines, i)])

\* C16 witness: an idiom between the declaration and the address, finding reported
C16_WitnessBefore ==
  /\ IsSome(eresult) /\ ekind = "staking"
  /\ \E i \in DOMAIN SourceLines :
       /\ WeakReported(SourceLines, Output, i)
       /\ \E n \in (NearestDecl(SourceLines, i) + 1)..(i - 1) : HasIdiom(SourceLines[n])

\* C16 witness: an idiom after the closing brace, finding reported
C16_WitnessAfter ==
  /\ IsSome(eresult) /\ ekind = "staking"
  /\ \E i \in DOMAIN SourceLines :
       /\ WeakReported(SourceLines, Output, i)
       /\ \E n \in (FirstBraceFrom(SourceLines, i) + 1)..Len(SourceLines) :
            HasIdiom(SourceLines[n])

\* C16 witness of the suppression: an idiom on a line after the address and before any
\* closing brace, none in the signature, and no weak-access finding
C16_WitnessSuppressed ==
  /\ IsSome(eresult) /\ ekind = "staking"
  /\ \E i \in PrecompileLines(SourceLines) :
       LET sig == DeclText(SourceLines, NearestDecl(SourceLines, i))
       IN /\ PublicOrExternal(sig) /\ ~HasIdiom(sig)
          /\ \E n \in ScanZone(SourceLines, i) : n > i /\ HasIdiom(SourceLines[n])
          /\ TypedOn(Output, i, WeakAccessType) = {}

\* C17: no output of the staking worker holds a finding of type "Unchecked Return
\* Value": a line the low-level-call pattern matches holds an assignment sign, and the
\* check asks for a line without one.
C17_NoUncheckedReturn ==
  (IsSome(eresult) /\ ekind = "staking") =>
    /\ \A k \in DOMAIN Output : Output[k].issue_type # UncheckedReturnType
    /\ \A n \in DOMAIN SourceLines :
         IsMatch(low_level_call_regex, SourceLines[n]) => Contains(SourceLines[n], "=")

\* C17 witness: the address on a line the low-level-call pattern matches, with no
\* require( on it, and the findings of that line reported
C17_Witness ==
  /\ IsSome(eresult) /\ ekind = "staking"
  /\ \E i \in PrecompileLines(SourceLines) :
       /\ IsMatch(low_level_call_regex, SourceLines[i])
       /\ ~ContainsRequireCall(SourceLines[i])
       /\ FindingsOn(Output, i) # {}

\* C17 witness of the dropped return value: a call on the address whose result is not
\* assigned, which the low-level-call pattern does not match
C17_WitnessDropped ==
  /\ IsSome(eresult) /\ ekind = "staking"
  /\ \E i \in PrecompileLines(SourceLines) :
       /\ Contains(SourceLines[i], "call")
       /\ ~Contains(SourceLines[i], "=")
       /\ ~IsMatch(low_level_call_regex, SourceLines[i])

\* the finding types of the staking worker's precompile checks
PrecompileCheckTypes ==
  {InteractionType, MissingPayableType, UncheckedReturnType, WeakAccessType}

\* positions in a finding list of the findings on line n that belong to none of the
\* precompile checks
OtherFindingsOn(out, n) ==
  {k \in FindingsOn(out, n) : out[k].issue_type \notin PrecompileCheckTypes}

\* a validator identifier, as Avalanche writes it: NodeID-...
validator_id_pattern == Re(<<WB, Lit("NodeID"), Lit("-")>>)

\* the declaration of a function that withdraws or claims rewards
reward_withdrawal_declaration ==
  ReCI(<<Lit("function"), SPlus,
         Alt(<<<<"withdrawRewards">>, <<"claimRewards">>, <<"withdrawReward">>,
               <<"claimReward">>>>)>>)

\* C13 as stated: the staking worker's output holds a hardcoded-validator finding on
\* every line that holds a validator identifier, and one more on line 0 whenever a
\* precompile interaction was found and the source declares no reward-withdrawal function.
C13_ValidatorRule ==
  (IsSome(eresult) /\ ekind = "staking") =>
    LET ls == SourceLines
        out == Output
    IN /\ \A n \in DOMAIN ls :
            IsMatch(validator_id_pattern, ls[n]) => OtherFindingsOn(out, n) # {}
       /\ (OfType(InteractionType) # {}
             /\ ~IsMatch(reward_withdrawal_declaration, ejob.source_code))
            => OtherFindingsOn(out, 0) # {}

(***************************************************************************)
(* Properties of the subnet portability worker                             *)
(***************************************************************************)
\* the job carries a subnet genesis with a gas limit
LimitSupplied ==
  IsSome(ejob.subnet_genesis) /\ IsSome(ejob.subnet_genesis[1].config.fee_config.gas_limit)

\* that limit
SuppliedLimit == ejob.subnet_genesis[1].config.fee_config.gas_limit[1]

\* C12: the portability worker's output holds no gas-limit finding when the job has no
\* genesis or the genesis has no gas limit; with a limit L it holds exactly one, on line
\* 0, when 1,000,000 > L and none when L >= 1,000,000, whatever the source text is.
C12_GasLimitFinding ==
  (IsSome(eresult) /\ ekind = "portability") =>
    /\ Cardinality(OfType(GasLimitType)) =
         (IF LimitSupplied /\ 1000000 > SuppliedLimit THEN 1 ELSE 0)
    /\ \A i \in OfType(GasLimitType) : Output[i].line = 0

\* C12 witness: the empty source under a limit of 999,999 gets the gas-limit finding
C12_Witness ==
  /\ IsSome(eresult) /\ ekind = "portability"
  /\ ejob.source_code = <<>>
  /\ LimitSupplied /\ SuppliedLimit = 999999
  /\ Cardinality(OfType(GasLimitType)) = 1

\* C12 witness of the boundary: a source with findings under a limit of exactly
\* 1,000,000 gets no gas-limit finding
C12_WitnessAtLimit ==
  /\ IsSome(eresult) /\ ekind = "portability"
  /\ LimitSupplied /\ SuppliedLimit = 1000000
  /\ Output # <<>> /\ OfType(GasLimitType) = {}

=============================================================================
